---- MODULE Spec2Model ----
(***************************************************************************)
(* The manifest manipulation commands of lhotse's command line (split,     *)
(* subset, combine, filter), src/lhotse/bin/modes/manipulation.py.         *)
(*                                                                         *)
(* One run of one command is one step: from pc = "ready" the command's     *)
(* handler runs to its end (normal return, uncaught exception or exit())   *)
(* and leaves pc = "done" with what the run left behind: the exception or  *)
(* exit status, the text echoed to stderr, and the files written.          *)
(*                                                                         *)
(* Text is a sequence of one-character strings.  A number is a record      *)
(* [whole, nano]: its integer part and its fractional part in units of     *)
(* 1e-9, so that the relative tolerance 1e-9 of math.isclose is exact in   *)
(* integer arithmetic.  Attribute values and literals are non-negative     *)
(* (the predicate pattern admits no sign).                                 *)
(***************************************************************************)
EXTENDS Integers, Sequences, FiniteSets, TLC

VARIABLES pc, cmd, args, error, exitCode, stderr, dirCreated, parts, output,
          retained

vars == <<pc, cmd, args, error, exitCode, stderr, dirCreated, parts, output,
          retained>>

(***************************************************************************)
(* Bounds of the model.                                                    *)
(***************************************************************************)
\* longest manifest given to split, subset and filter
MaxRecords == 3
\* largest NUM_SPLITS
MaxSplits == 4
\* longest --cutids array
MaxIds == 2
\* most manifests given to combine, and the longest of them
MaxInputs == 2
MaxCombineLen == 2
\* longest predicate text enumerated exhaustively
MaxPredLen == 4

(***************************************************************************)
(* Optional values (Python None or a value).                               *)
(***************************************************************************)
NoneOpt == <<>>
Some(x) == <<x>>
IsNone(o) == Len(o) = 0
Get(o) == o[1]

(***************************************************************************)
(* Numbers.                                                                *)
(***************************************************************************)
NanoPerUnit == 1000000000

Num(w, n) == [whole |-> w, nano |-> n]

NumEq(a, b) == a.whole = b.whole /\ a.nano = b.nano
NumLt(a, b) == a.whole < b.whole \/ (a.whole = b.whole /\ a.nano < b.nano)
NumLe(a, b) == NumLt(a, b) \/ NumEq(a, b)

\* math.isclose(a, b) with its defaults rel_tol = 1e-9, abs_tol = 0:
\*   abs(a - b) <= rel_tol * max(abs(a), abs(b)).
\* With hi the larger and dw + dn * 1e-9 the difference, the test is
\*   dw * 1e9 + dn <= hi.whole + hi.nano * 1e-9,
\* whose left side is an integer and whose right side has a fraction < 1.
isclose(a, b) ==
    LET hi == IF NumLt(a, b) THEN b ELSE a
        lo == IF NumLt(a, b) THEN a ELSE b
        borrow == IF hi.nano < lo.nano THEN 1 ELSE 0
        dw == hi.whole - lo.whole - borrow
        dn == hi.nano - lo.nano + borrow * NanoPerUnit
    IN  IF dw >= 1
        THEN hi.whole >= NanoPerUnit /\ dw <= (hi.whole - dn) \div NanoPerUnit
        ELSE dn <= hi.whole

(***************************************************************************)
(* Records and manifests.  Attribute names are texts.  A record lacks the  *)
(* attributes outside the domain of its attrs.                             *)
(***************************************************************************)
Variants == {"RecordingSet", "SupervisionSet", "CutSet"}

ItemType(variant) ==
    CASE variant = "RecordingSet" -> "Recording"
      [] variant = "SupervisionSet" -> "SupervisionSegment"
      [] variant = "CutSet" -> "Cut"

Duration == <<"d">>
Channel == <<"c">>

Recs == {
    [id |-> "r1", attrs |-> (Duration :> Num(2, 0)) @@ (Channel :> Num(0, 0))],
    [id |-> "r2", attrs |-> (Duration :> Num(2, 1)) @@ (Channel :> Num(1, 0))],
    [id |-> "r3", attrs |-> (Duration :> Num(0, 500000000))],
    [id |-> "r4", attrs |-> (Duration :> Num(2, 3)) @@ (Channel :> Num(2, 0))] }

CombineRecs == {r \in Recs : r.id \in {"r1", "r2", "r3"}}

Ids(items) == {items[i].id : i \in DOMAIN items}

UniqueIds(items) ==
    \A i, j \in DOMAIN items : items[i].id = items[j].id => i = j

SeqsUpTo(S, n) == UNION {[1..k -> S] : k \in 0..n}

Typed(r, variant) == [id |-> r.id, type |-> ItemType(variant), attrs |-> r.attrs]

\* the manifests load_manifest can return: records of one type, unique ids
ManifestsOf(recs, maxLen) ==
    {[variant |-> v, items |-> [i \in DOMAIN s |-> Typed(s[i], v)]] :
        v \in Variants, s \in {t \in SeqsUpTo(recs, maxLen) : UniqueIds(t)}}

ManifestSets == ManifestsOf(Recs, MaxRecords)

CombineManifests == ManifestsOf(CombineRecs, MaxCombineLen)

Min(a, b) == IF a < b THEN a ELSE b


(***************************************************************************)
(* What a run leaves behind.                                               *)
(*   error      "none", or the failure: an uncaught exception (named by    *)
(*              the error of the specification's taxonomy it stands for)   *)
(*              or the condition reported before exit()                    *)
(*   exitCode   the process's exit status                                  *)
(*   stderr     the message click.echo(..., err=True) printed, or "none"   *)
(*   dirCreated whether OUTPUT_DIR was created                             *)
(*   parts      the files written in OUTPUT_DIR: parts[n] is the content   *)
(*              of <stem>.<n><suffix>                                      *)
(*   output     OUTPUT_MANIFEST: NoneOpt when not written                  *)
(*   retained   filter's retained_items when the run ended                 *)
(***************************************************************************)
Result(err, code, msg, dir, ps, out, ret) ==
    [error |-> err, exitCode |-> code, stderr |-> msg, dirCreated |-> dir,
     parts |-> ps, output |-> out, retained |-> ret]

\* an exception nobody catches: traceback, exit status 1, nothing written
Raised(err) == Result(err, 1, "none", FALSE, <<>>, NoneOpt, <<>>)

\* data.to_file(output_manifest), then the normal return
Stored(m) == Result("none", 0, "none", FALSE, <<>>, Some(m), <<>>)

\* what a library call returns: its value, or the error it raises
Value(v) == [err |-> "none", value |-> v]
Error(e) == [err |-> e, value |-> <<>>]

(***************************************************************************)
(* split                                                                   *)
(***************************************************************************)
Perms(items) ==
    {[i \in DOMAIN items |-> items[p[i]]] :
        p \in {q \in [DOMAIN items -> DOMAIN items] :
                  \A i, j \in DOMAIN items : q[i] = q[j] => i = j}}

\* the orders the records can be in before partitioning
Orders(items, shuffle) == IF shuffle THEN Perms(items) ELSE {items}

\* any_set.split(num_splits, shuffle): contiguous chunks of `order`, the first
\* N mod num_splits of them one record longer than the rest
set_split(m, num_splits, order) ==
    IF num_splits <= 0
    THEN Error("InvalidArgument")
    ELSE LET N == Len(order)
             q == N \div num_splits
             r == N % num_splits
             start(i) == (i - 1) * q + Min(i - 1, r) + 1
             size(i) == q + (IF i <= r THEN 1 ELSE 0)
         IN  Value([i \in 1..num_splits |->
                      [variant |-> m.variant,
                       items |-> SubSeq(order, start(i), start(i) + size(i) - 1)]])

\* every part written to the same file: the last part is what remains
SplitStoreOneFile(ps) ==
    IF ps = <<>> THEN <<>> ELSE <<ps[Len(ps)]>>

\* for idx, part in enumerate(parts): part.to_file(<stem>.<idx + 1><suffix>)
SplitStore(ps) ==
    [n \in {idx + 1 : idx \in 0..(Len(ps) - 1)} |-> ps[n]]

\* the output directory made before the manifest is split
SplitRunMkdirFirst(m, num_splits, order) ==
    LET ps == set_split(m, num_splits, order)
    IN  IF ps.err # "none"
        THEN Result(ps.err, 1, "none", TRUE, <<>>, NoneOpt, <<>>)
        ELSE Result("none", 0, "none", TRUE, SplitStore(ps.value), NoneOpt, <<>>)

SplitRun(m, num_splits, order) ==
    LET ps == set_split(m, num_splits, order)
    IN  IF ps.err # "none"
        THEN Raised(ps.err)
        ELSE Result("none", 0, "none", TRUE, SplitStore(ps.value), NoneOpt, <<>>)

(***************************************************************************)
(* subset                                                                  *)
(***************************************************************************)
First(items, n) == SubSeq(items, 1, n)
Last(items, n) == SubSeq(items, Len(items) - n + 1, Len(items))

InIds(ids) == {ids[i] : i \in DOMAIN ids}

RECURSIVE Select(_, _)
\* the records of items whose identifier is in idSet, in items' order
Select(items, idSet) ==
    IF items = <<>> THEN <<>>
    ELSE (IF Head(items).id \in idSet THEN <<Head(items)>> ELSE <<>>)
             \o Select(Tail(items), idSet)

\* first = n alone
TakeFirst(m, n) ==
    IF n > Len(m.items)
    THEN Error("InvalidArgument")
    ELSE Value([variant |-> m.variant, items |-> First(m.items, n)])

\* last = n alone
TakeLast(m, n) ==
    IF n > Len(m.items)
    THEN Error("InvalidArgument")
    ELSE Value([variant |-> m.variant, items |-> Last(m.items, n)])

\* any_set.subset(first, last, cut_ids): the results the call may have.
\* ids take precedence; first and last together, or no selection at all, are
\* left to the implementation.
set_subset(m, first, last, ids) ==
    IF ~IsNone(ids)
    THEN {Value([variant |-> m.variant,
                 items |-> Select(m.items, InIds(Get(ids)))])}
    ELSE IF ~IsNone(first) /\ IsNone(last) THEN {TakeFirst(m, Get(first))}
    ELSE IF IsNone(first) /\ ~IsNone(last) THEN {TakeLast(m, Get(last))}
    ELSE IF ~IsNone(first) /\ ~IsNone(last)
    THEN {Error("InvalidArgument"), TakeFirst(m, Get(first)),
          TakeLast(m, Get(last))}
    ELSE {Error("InvalidArgument"), Value(m)}

\* cids: None without --cutids, else json.load / json.loads of the text given
\* inline or in the file cutids names: the array, or JSONDecodeError for
\* text that is no JSON
LoadCutIds(cutids) ==
    IF IsNone(cutids) THEN Value(NoneOpt)
    ELSE IF ~Get(cutids).json THEN Error("JSONDecodeError")
    ELSE Value(Some(Get(cutids).array))

\* the guard tests the parsed list's truth instead of the option's presence
CutIdsRejectedIfNonEmpty(m, cutids) ==
    /\ m.variant # "CutSet"
    /\ ~IsNone(LoadCutIds(cutids).value)
    /\ Get(LoadCutIds(cutids).value) # <<>>

\* not isinstance(any_set, CutSet) and cutids is not None
CutIdsRejected(m, cutids) ==
    /\ m.variant # "CutSet"
    /\ ~IsNone(cutids)

\* the cut ids not handed on
CutSubsetNoIds(m, first, last, cids) == set_subset(m, first, last, NoneOpt)

\* first and last handed on in each other's place
CutSubsetSwapped(m, first, last, cids) == set_subset(m, last, first, cids)

\* any_set.subset(first=first, last=last, cut_ids=cids)
CutSubset(m, first, last, cids) == set_subset(m, first, last, cids)

\* any_set.subset(first=first, last=last)
PlainSubset(m, first, last) == set_subset(m, first, last, NoneOpt)

Finish(r) == IF r.err # "none" THEN Raised(r.err) ELSE Stored(r.value)

\* the results a run of subset may have
SubsetRun(m, first, last, cutids) ==
    LET cids == LoadCutIds(cutids)
    IN  IF cids.err # "none" THEN {Raised(cids.err)}
        ELSE IF CutIdsRejected(m, cutids)
        THEN {Raised("UnsupportedOperation")}
        ELSE IF m.variant = "CutSet"
        THEN {Finish(r) : r \in CutSubset(m, first, last, cids.value)}
        ELSE {Finish(r) : r \in PlainSubset(m, first, last)}

(***************************************************************************)
(* combine                                                                 *)
(***************************************************************************)
RECURSIVE Concat(_)
Concat(seqs) == IF seqs = <<>> THEN <<>> ELSE Head(seqs) \o Concat(Tail(seqs))

\* lhotse.manipulation.combine(*manifests)
combine_manifests(sets) ==
    IF Len(sets) = 0 THEN Error("InvalidArgument")
    ELSE IF \E i \in DOMAIN sets : sets[i].variant # sets[1].variant
    THEN Error("TypeMismatch")
    ELSE IF \E i, j \in DOMAIN sets :
               i # j /\ Ids(sets[i].items) \cap Ids(sets[j].items) # {}
    THEN Error("DuplicateIdentifier")
    ELSE Value([variant |-> sets[1].variant,
                items |-> Concat([i \in DOMAIN sets |-> sets[i].items])])

\* the manifests loaded last to first
CombineRunReversed(manifests) ==
    Finish(combine_manifests(
        [i \in DOMAIN manifests |-> manifests[Len(manifests) + 1 - i]]))

\* combine_manifests(*[load_manifest(m) for m in manifests]), then to_file
CombineRun(manifests) ==
    Finish(combine_manifests([i \in DOMAIN manifests |-> manifests[i]]))

(***************************************************************************)
(* filter: the predicate pattern                                           *)
(*   (?P<key>\w+)(?P<op>=|==|!=|>|<|>=|<=)(?P<value>[0-9.]+)               *)
(* matched at the start of the text (re.match).                            *)
(***************************************************************************)
Digits == <<"0", "1", "2", "3", "4", "5", "6", "7", "8", "9">>

DigitChars == {Digits[i] : i \in DOMAIN Digits}

Letters == {"a", "b", "c", "d", "e", "f", "g", "h", "i", "j", "k", "l", "m",
            "n", "o", "p", "q", "r", "s", "t", "u", "v", "w", "x", "y", "z"}

\* \w
WordChars == Letters \cup DigitChars \cup {"_"}

\* [0-9.]
ValueChars == DigitChars \cup {"."}

\* the alternatives of (?P<op>...), in the pattern's order
OpAlternatives ==
    << <<"=">>, <<"=", "=">>, <<"!", "=">>, <<">">>, <<"<">>, <<">", "=">>,
       <<"<", "=">> >>

\* number of leading characters of text, from position pos on, that are in chars
RECURSIVE RunLength(_, _, _)
RunLength(text, pos, chars) ==
    IF pos <= Len(text) /\ text[pos] \in chars
    THEN 1 + RunLength(text, pos + 1, chars)
    ELSE 0

StartsWith(text, pos, word) ==
    /\ pos + Len(word) - 1 <= Len(text)
    /\ SubSeq(text, pos, pos + Len(word) - 1) = word

NoMatch == [matched |-> FALSE]

\* the ways the pattern can match: a key of kl word characters, then
\* alternative i of the operator, then at least one value character
Candidates(text) ==
    {c \in (1..RunLength(text, 1, WordChars)) \X DOMAIN OpAlternatives :
        /\ StartsWith(text, c[1] + 1, OpAlternatives[c[2]])
        /\ RunLength(text, c[1] + 1 + Len(OpAlternatives[c[2]]), ValueChars) >= 1}

\* predicate_pattern.match(predicate): the backtracking matcher takes the
\* longest key first (greedy \w+), for it the first alternative that lets the
\* rest match, and then the longest value (greedy [0-9.]+); text after the
\* value is not looked at
Match(text) ==
    IF Candidates(text) = {} THEN NoMatch
    ELSE LET c == CHOOSE x \in Candidates(text) :
                    \A y \in Candidates(text) :
                        \/ x[1] > y[1]
                        \/ (x[1] = y[1] /\ x[2] <= y[2])
             vstart == c[1] + 1 + Len(OpAlternatives[c[2]])
         IN  [matched |-> TRUE,
              key |-> SubSeq(text, 1, c[1]),
              op |-> OpAlternatives[c[2]],
              value |-> SubSeq(text, vstart,
                               vstart + RunLength(text, vstart, ValueChars) - 1)]

(***************************************************************************)
(* filter: the literal.  int(text), and float(text) when int raises.       *)
(***************************************************************************)
DigitValue(ch) == (CHOOSE i \in DOMAIN Digits : Digits[i] = ch) - 1

RECURSIVE Pow10(_)
Pow10(n) == IF n = 0 THEN 1 ELSE 10 * Pow10(n - 1)

\* the number a text of digits writes (0 for the empty text)
RECURSIVE Decimal(_)
Decimal(digits) ==
    IF digits = <<>> THEN 0
    ELSE 10 * Decimal(SubSeq(digits, 1, Len(digits) - 1))
            + DigitValue(digits[Len(digits)])

AllDigits(text) == \A i \in DOMAIN text : text[i] \in DigitChars

Dots(text) == {i \in DOMAIN text : text[i] = "."}

\* int(text) of a text of value characters: raises ValueError unless every
\* character is a digit
int(text) ==
    IF text # <<>> /\ AllDigits(text)
    THEN Value([kind |-> "int", whole |-> Decimal(text), nano |-> 0])
    ELSE Error("ValueError")

\* float(text) of a text of value characters: digits with at most one point
\* and at least one digit; anything else raises ValueError.  Up to nine
\* fractional digits are exact in units of 1e-9.
float(text) ==
    IF AllDigits(text) /\ text # <<>>
    THEN Value([kind |-> "float", whole |-> Decimal(text), nano |-> 0])
    ELSE IF Cardinality(Dots(text)) = 1 /\ Len(text) >= 2
    THEN LET dot == CHOOSE i \in Dots(text) : TRUE
             frac == SubSeq(text, dot + 1, Len(text))
             kept == SubSeq(frac, 1, Min(Len(frac), 9))
         IN  Value([kind |-> "float",
                    whole |-> Decimal(SubSeq(text, 1, dot - 1)),
                    nano |-> Decimal(kept) * Pow10(9 - Len(kept))])
    ELSE Error("ValueError")

\* try: value = int(...)  except ValueError: value = float(...)
Literal(text) == IF int(text).err = "none" THEN int(text) ELSE float(text)

(***************************************************************************)
(* filter: the comparison and the loop                                     *)
(***************************************************************************)
\* "!=" as strict inequality (operator.ne) instead of complement(isclose)
CompareStrictNe(op, a, b) ==
    CASE op = <<"<">> -> NumLt(a, b)
      [] op = <<">">> -> NumLt(b, a)
      [] op = <<">", "=">> -> NumLe(b, a)
      [] op = <<"<", "=">> -> NumLe(a, b)
      [] op = <<"=">> -> isclose(a, b)
      [] op = <<"=", "=">> -> isclose(a, b)
      [] op = <<"!", "=">> -> ~NumEq(a, b)

\* the table of comparisons, applied as compare(attr, value)
Compare(op, a, b) ==
    CASE op = <<"<">> -> NumLt(a, b)
      [] op = <<">">> -> NumLt(b, a)
      [] op = <<">", "=">> -> NumLe(b, a)
      [] op = <<"<", "=">> -> NumLe(a, b)
      [] op = <<"=">> -> isclose(a, b)
      [] op = <<"=", "=">> -> isclose(a, b)
      [] op = <<"!", "=">> -> ~isclose(a, b)

\* getattr(item, key) raises AttributeError
Lacks(item, key) == key \notin DOMAIN item.attrs

\* a record without the attribute is passed over and the loop goes on
RECURSIVE LoopSkipMissing(_, _, _, _, _)
LoopSkipMissing(items, key, op, value, kept) ==
    IF items = <<>> THEN [attributeError |-> FALSE, retained |-> kept]
    ELSE IF Lacks(Head(items), key)
    THEN LoopSkipMissing(Tail(items), key, op, value, kept)
    ELSE LoopSkipMissing(Tail(items), key, op, value,
             IF Compare(op, Head(items).attrs[key], value)
             THEN Append(kept, Head(items)) ELSE kept)

\* for item in data_set: ... retained_items.append(item), left at the first
\* AttributeError; kept is retained_items so far
RECURSIVE Loop(_, _, _, _, _)
Loop(items, key, op, value, kept) ==
    IF items = <<>> THEN [attributeError |-> FALSE, retained |-> kept]
    ELSE IF Lacks(Head(items), key)
    THEN [attributeError |-> TRUE, retained |-> kept]
    ELSE Loop(Tail(items), key, op, value,
             IF Compare(op, Head(items).attrs[key], value)
             THEN Append(kept, Head(items)) ELSE kept)

(***************************************************************************)
(* filter: the result                                                      *)
(***************************************************************************)
\* the Type Resolver: the variant whose records have this type
VariantOf(type) == CHOOSE v \in Variants : ItemType(v) = type

\* lhotse.manipulation.to_manifest(items): None for no items, else the set
\* of the variant the first item's type resolves to
to_manifest(items) ==
    IF items = <<>> THEN Value(NoneOpt)
    ELSE IF \A v \in Variants : ItemType(v) # items[1].type
    THEN Error("AmbiguousOrUnknownRecordType")
    ELSE Value(Some([variant |-> VariantOf(items[1].type), items |-> items]))

\* no test for None: None.to_file raises AttributeError
FilterStoreUnchecked(kept) ==
    LET fds == to_manifest(kept)
    IN  IF fds.err # "none" THEN Raised(fds.err)
        ELSE IF IsNone(fds.value) THEN Raised("AttributeError")
        ELSE Result("none", 0, "none", FALSE, <<>>, fds.value, kept)

EmptyMessage == "No items satisfying the predicate."

\* filtered_data_set = to_manifest(retained_items) and what follows
FilterStore(kept) ==
    LET fds == to_manifest(kept)
    IN  IF fds.err # "none" THEN Raised(fds.err)
        ELSE IF IsNone(fds.value)
        THEN Result("EmptyResult", 0, EmptyMessage, FALSE, <<>>, NoneOpt, kept)
        ELSE Result("none", 0, "none", FALSE, <<>>, fds.value, kept)

AttributeMessage == "Invalid predicate! Items do not have the attribute"

\* a whole run of filter
FilterRun(predicate, m) ==
    LET match == Match(predicate)
    IN  IF ~match.matched THEN Raised("InvalidPredicateSyntax")
        ELSE LET value == Literal(match.value)
             IN  IF value.err # "none" THEN Raised("ValueError")
                 ELSE LET loop == Loop(m.items, match.key, match.op,
                                       value.value, <<>>)
                      IN  IF loop.attributeError
                          THEN Result("UnknownAttribute", 1, AttributeMessage,
                                      FALSE, <<>>, NoneOpt, loop.retained)
                          ELSE FilterStore(loop.retained)

(***************************************************************************)
(* The inputs of the runs.                                                 *)
(***************************************************************************)
\* NUM_SPLITS
SplitCounts == (0 - 1)..MaxSplits

\* --first, --last
Counts == {NoneOpt} \cup {Some(n) : n \in 0..(MaxRecords + 1)}

\* a --cutids text that writes the JSON array ids
Array(ids) == [json |-> TRUE, array |-> ids]

\* a --cutids text that is no JSON
NotJson == [json |-> FALSE, array |-> <<>>]

\* --cutids
CutIdLists ==
    {NoneOpt, Some(NotJson)}
        \cup {Some(Array(l)) : l \in SeqsUpTo({"r1", "r3", "nonexistent"}, MaxIds)}

\* MANIFESTS of combine
CombineInputs == SeqsUpTo(CombineManifests, MaxInputs)

\* predicate texts of every operator, of both attributes and of an attribute
\* no record has, with integer and floating literals, and malformed ones
PredicateSamples ==
    {<<"d", ">", "2">>,
     <<"d", "<", "2">>,
     <<"d", ">", "=", "2">>,
     <<"d", "<", "=", "2">>,
     <<"d", "=", "2">>,
     <<"d", "=", "=", "2">>,
     <<"d", "!", "=", "2">>,
     <<"d", "=", "2", ".", "0">>,
     <<"d", "=", "=", "2", ".", "0">>,
     <<"d", "!", "=", "2", ".", "0">>,
     <<"d", ">", "=", "0">>,
     <<"d", ">", "0", ".", "5">>,
     <<"d", "<", "=", "0", ".", "5">>,
     <<"d", "<", "2", ".", "5">>,
     <<"c", ">", "0">>,
     <<"c", "<", "2">>,
     <<"c", "=", "0">>,
     <<"c", "=", "=", "1">>,
     <<"c", "!", "=", "0">>,
     <<"c", ">", "=", "1">>,
     <<"c", "<", "=", "1">>,
     <<"x", ">", "0">>,
     <<"d", "_", "2", ">", "0">>,
     <<"d", ">", "2", "x">>,
     <<"d", ">", "2", " ">>,
     <<"d", ">", "=", "2", ".", "0", ".", "5">>,
     <<"d", ">", "2", ".", "0", "=">>,
     <<"d", "=", ">", "2">>,
     <<"d", " ", ">", "2">>,
     <<"d", "=", "2", ".", "0", "0", "0", "0", "0", "0", "0", "0", "1">>,
     <<"d", "!", "=", "2", ".", "0", "0", "0", "0", "0", "0", "0", "0", "1">>,
     <<"d", "=", "2", ".", "0", "0", "0", "0", "0", "0", "0", "0", "3">>,
     <<"d", ">", "=", "-", "1">>}

\* every text up to MaxPredLen over these characters
Alphabet == {"d", "=", "!", ">", "<", "2", ".", " "}

Texts == SeqsUpTo(Alphabet, MaxPredLen)

\* the manifests the exhaustive texts are run on
TextManifests == {m \in ManifestsOf(Recs, 1) : m.variant = "CutSet"}

FilterInputs ==
    (PredicateSamples \X ManifestSets) \cup (Texts \X TextManifests)

(***************************************************************************)
(* The runs.                                                               *)
(***************************************************************************)
Init ==
    /\ pc = "ready"
    /\ cmd = "none"
    /\ args = <<>>
    /\ error = "none"
    /\ exitCode = 0
    /\ stderr = "none"
    /\ dirCreated = FALSE
    /\ parts = <<>>
    /\ output = NoneOpt
    /\ retained = <<>>

Ends(c, a, r) ==
    /\ pc' = "done"
    /\ cmd' = c
    /\ args' = a
    /\ error' = r.error
    /\ exitCode' = r.exitCode
    /\ stderr' = r.stderr
    /\ dirCreated' = r.dirCreated
    /\ parts' = r.parts
    /\ output' = r.output
    /\ retained' = r.retained

split ==
    /\ pc = "ready"
    /\ \E num_splits \in SplitCounts, m \in ManifestSets, shuffle \in BOOLEAN :
           \E order \in Orders(m.items, shuffle) :
               Ends("split",
                    [num_splits |-> num_splits, manifest |-> m, shuffle |-> shuffle],
                    SplitRun(m, num_splits, order))

subset ==
    /\ pc = "ready"
    /\ \E m \in ManifestSets, first \in Counts, last \in Counts,
          cutids \in CutIdLists :
           \E r \in SubsetRun(m, first, last, cutids) :
               Ends("subset",
                    [manifest |-> m, first |-> first, last |-> last,
                     cutids |-> cutids],
                    r)

combine ==
    /\ pc = "ready"
    /\ \E manifests \in CombineInputs :
           Ends("combine", [manifests |-> manifests], CombineRun(manifests))

filter ==
    /\ pc = "ready"
    /\ \E in \in FilterInputs :
           Ends("filter", [predicate |-> in[1], manifest |-> in[2]],
                FilterRun(in[1], in[2]))

Next == split \/ subset \/ combine \/ filter

Spec == Init /\ [][Next]_vars

(***************************************************************************)
(* Properties.                                                             *)
(***************************************************************************)
Ran(c) == pc = "done" /\ cmd = c

RECURSIVE SumLen(_)
SumLen(seqs) == IF seqs = <<>> THEN 0 ELSE Len(Head(seqs)) + SumLen(Tail(seqs))

PartItems == [i \in DOMAIN parts |-> parts[i].items]

\* the places (part, position) at which record r is written
Places(r) ==
    {pl \in (DOMAIN parts) \X (1..(MaxRecords + 1)) :
        pl[2] <= Len(parts[pl[1]].items) /\ parts[pl[1]].items[pl[2]] = r}

\* C1: split with num_splits = k > 0 writes exactly k parts; every record of
\* the manifest is in exactly one part exactly once and nothing else is
\* written; two part sizes differ by at most 1; with k > N the surplus parts
\* are empty and there is no error; without shuffle the parts, concatenated in
\* output order, are the manifest's records in their original order.
C1_SplitIsPartition ==
    (Ran("split") /\ args.num_splits > 0) =>
        LET S == args.manifest.items
            k == args.num_splits
        IN  /\ error = "none"
            /\ exitCode = 0
            /\ dirCreated
            /\ Len(parts) = k
            /\ \A i \in DOMAIN S : Cardinality(Places(S[i])) = 1
            /\ SumLen(PartItems) = Len(S)
            /\ \A i, j \in DOMAIN parts :
                   Len(parts[i].items) - Len(parts[j].items) <= 1
            /\ k > Len(S) =>
                   Cardinality({i \in DOMAIN parts : parts[i].items = <<>>})
                       = k - Len(S)
            /\ ~args.shuffle => Concat(PartItems) = S

C1_Witness ==
    /\ Ran("split")
    /\ args.shuffle
    /\ args.num_splits = 4
    /\ Len(args.manifest.items) = 3
    /\ error = "none"
    /\ Len(parts) = 4
    /\ parts[4].items = <<>>
    /\ Concat(PartItems) # args.manifest.items

\* what the comparison written op says of attribute value a and literal v
Satisfies(op, a, v) ==
    \/ op \in {<<"=">>, <<"=", "=">>} /\ isclose(a, v)
    \/ op = <<"!", "=">> /\ ~isclose(a, v)
    \/ op = <<">">> /\ NumLt(v, a)
    \/ op = <<"<">> /\ NumLt(a, v)
    \/ op = <<">", "=">> /\ ~NumLt(a, v)
    \/ op = <<"<", "=">> /\ ~NumLt(v, a)

\* a numeric literal: digits with at most one point and at least one digit
IsNumeral(text) ==
    /\ \A i \in DOMAIN text : text[i] \in ValueChars
    /\ Cardinality(Dots(text)) <= 1
    /\ \E i \in DOMAIN text : text[i] \in DigitChars

IsIdentifier(text) ==
    text # <<>> /\ \A i \in DOMAIN text : text[i] \in WordChars

Operators == {OpAlternatives[i] : i \in DOMAIN OpAlternatives}

\* the readings of text, as a whole, as <identifier><op><numeric literal>
Readings(text) ==
    {rd \in {[key |-> SubSeq(text, 1, a), op |-> SubSeq(text, a + 1, b),
              value |-> SubSeq(text, b + 1, Len(text))] :
                 a \in 1..Len(text), b \in 1..Len(text)} :
        /\ IsIdentifier(rd.key)
        /\ rd.op \in Operators
        /\ IsNumeral(rd.value)}

\* the records of items that have attribute key with op(value, v) true
Matching(items, key, op, v) ==
    SelectSeq(items,
              LAMBDA r : key \in DOMAIN r.attrs /\ Satisfies(op, r.attrs[key], v))

\* C2: when the predicate text reads as (attribute, op, literal), every record
\* of the manifest has the attribute and at least one record satisfies the
\* comparison, filter writes a set of the input's variant holding exactly the
\* satisfying records in the input's order, "=" and "==" being approximate
\* equality and "!=" its negation; a predicate true of every record writes a
\* set equal to the input.
C2_FilterSelects ==
    Ran("filter") =>
        \A rd \in Readings(args.predicate) :
            LET S == args.manifest
                v == Literal(rd.value).value
                hits == Matching(S.items, rd.key, rd.op, v)
            IN  (/\ \A i \in DOMAIN S.items : rd.key \in DOMAIN S.items[i].attrs
                 /\ hits # <<>>) =>
                    /\ error = "none"
                    /\ exitCode = 0
                    /\ output = Some([variant |-> S.variant, items |-> hits])
                    /\ hits = S.items => Get(output) = S

C2_Witness ==
    /\ Ran("filter")
    /\ args.predicate = <<"d", "!", "=", "2">>
    /\ Ids(args.manifest.items) = {"r1", "r2", "r4"}
    /\ error = "none"
    /\ ~IsNone(output)
    /\ Ids(Get(output).items) = {"r4"}
    /\ Get(output).variant = args.manifest.variant

\* C3: filter fails with InvalidPredicateSyntax and writes nothing for every
\* text that is not as a whole <identifier><op><numeric literal>; every text
\* of that form is accepted and parsed into its attribute name, its operator
\* and its literal's value, an integer if the literal is a valid integer and
\* a floating-point number otherwise.
C3_PredicateGrammar ==
    Ran("filter") =>
        /\ Readings(args.predicate) = {} =>
               error = "InvalidPredicateSyntax" /\ IsNone(output)
        /\ \A rd \in Readings(args.predicate) :
               /\ Match(args.predicate).matched
               /\ Match(args.predicate).key = rd.key
               /\ Match(args.predicate).op = rd.op
               /\ Match(args.predicate).value = rd.value
               /\ Literal(rd.value).err = "none"
               /\ Literal(rd.value).value.kind = "int" <=> AllDigits(rd.value)
               /\ error \notin {"InvalidPredicateSyntax", "ValueError"}

\* the first record of items without attribute key (0 if every record has it)
FirstLacking(items, key) ==
    IF \A i \in DOMAIN items : key \in DOMAIN items[i].attrs THEN 0
    ELSE CHOOSE i \in DOMAIN items :
             /\ key \notin DOMAIN items[i].attrs
             /\ \A j \in 1..(i - 1) : key \in DOMAIN items[j].attrs

\* the predicate is accepted and its literal converts
Accepted(text) ==
    Match(text).matched /\ Literal(Match(text).value).err = "none"

\* C4: when a record of the manifest lacks the attribute of an accepted
\* predicate, filter fails with UnknownAttribute and exit status 1 at the
\* first such record and writes no output, however many earlier records were
\* retained; no record is skipped for lacking the attribute.
C4_UnknownAttributeFailsFast ==
    (Ran("filter") /\ Accepted(args.predicate)
        /\ FirstLacking(args.manifest.items, Match(args.predicate).key) # 0) =>
        LET mt == Match(args.predicate)
            S == args.manifest.items
            n == FirstLacking(S, mt.key)
        IN  /\ error = "UnknownAttribute"
            /\ exitCode = 1
            /\ stderr = AttributeMessage
            /\ IsNone(output)
            /\ retained = Matching(SubSeq(S, 1, n - 1), mt.key, mt.op,
                                   Literal(mt.value).value)

C4_Witness ==
    /\ Ran("filter")
    /\ args.predicate = <<"c", ">", "0">>
    /\ Len(args.manifest.items) = 3
    /\ args.manifest.items[3].id = "r3"
    /\ Len(retained) = 2
    /\ error = "UnknownAttribute"
    /\ exitCode = 1
    /\ IsNone(output)

\* C5: when the predicate is accepted, every record has the attribute and no
\* record satisfies the comparison, filter ends in the empty result: it
\* reports the message, exits with status 0 and writes no output; the empty
\* result is no error outcome (those exit with status 1), and a run of filter
\* that ends without error writes the output exactly if it retained a record.
C5_EmptyResult ==
    Ran("filter") =>
        /\ (/\ Accepted(args.predicate)
            /\ FirstLacking(args.manifest.items, Match(args.predicate).key) = 0
            /\ Matching(args.manifest.items, Match(args.predicate).key,
                        Match(args.predicate).op,
                        Literal(Match(args.predicate).value).value) = <<>>) =>
               /\ error = "EmptyResult"
               /\ exitCode = 0
               /\ stderr = EmptyMessage
               /\ IsNone(output)
               /\ retained = <<>>
        /\ error = "EmptyResult" => retained = <<>>
        /\ error \notin {"none", "EmptyResult"} => exitCode = 1 /\ IsNone(output)
        /\ error \in {"none", "EmptyResult"} =>
               /\ exitCode = 0
               /\ ~IsNone(output) <=> retained # <<>>

C5_Witness ==
    /\ Ran("filter")
    /\ args.predicate = <<"d", ">", "2">>
    /\ Ids(args.manifest.items) = {"r1", "r3"}
    /\ error = "EmptyResult"
    /\ exitCode = 0
    /\ stderr = EmptyMessage
    /\ IsNone(output)

\* C6: subset of a cut set with an ids list writes exactly the records whose
\* identifier occurs in the list, each once, in the set's own order; ids
\* matching no record are ignored and cause no error.
C6_SubsetByIds ==
    (Ran("subset") /\ args.manifest.variant = "CutSet"
        /\ ~IsNone(args.cutids) /\ Get(args.cutids).json) =>
        LET S == args.manifest
            ids == Get(args.cutids).array
        IN  /\ error = "none"
            /\ exitCode = 0
            /\ output = Some([variant |-> "CutSet",
                              items |-> SelectSeq(S.items,
                                  LAMBDA r : \E i \in DOMAIN ids : ids[i] = r.id)])

C6_Witness ==
    /\ Ran("subset")
    /\ args.manifest.variant = "CutSet"
    /\ args.cutids = Some(Array(<<"r3", "r1">>))
    /\ Len(args.manifest.items) = 3
    /\ args.manifest.items[1].id = "r1"
    /\ args.manifest.items[3].id = "r3"
    /\ ~IsNone(args.first)
    /\ error = "none"
    /\ Len(Get(output).items) = 2
    /\ Get(output).items[1].id = "r1"
    /\ Get(output).items[2].id = "r3"

C6_WitnessUnknownId ==
    /\ Ran("subset")
    /\ args.manifest.variant = "CutSet"
    /\ args.cutids = Some(Array(<<"r1", "nonexistent">>))
    /\ Len(args.manifest.items) = 2
    /\ error = "none"
    /\ Len(Get(output).items) = 1

\* C7: subset with an ids argument on a manifest that is no cut set fails with
\* UnsupportedOperation whatever the list holds and whatever first and last
\* are, and writes no output; without an ids argument it does not fail with
\* UnsupportedOperation.
C7_IdsNeedCutSet ==
    Ran("subset") =>
        /\ (/\ args.manifest.variant # "CutSet"
            /\ ~IsNone(args.cutids)
            /\ Get(args.cutids).json) =>
               /\ error = "UnsupportedOperation"
               /\ exitCode # 0
               /\ IsNone(output)
        /\ IsNone(args.cutids) => error # "UnsupportedOperation"

C7_Witness ==
    /\ Ran("subset")
    /\ args.manifest.variant = "RecordingSet"
    /\ args.cutids = Some(Array(<<>>))
    /\ args.first = Some(1)
    /\ IsNone(args.last)
    /\ Len(args.manifest.items) = 2
    /\ error = "UnsupportedOperation"
    /\ IsNone(output)

\* C8: subset with first = n alone writes the first n records in original
\* order, and with last = n alone the last n records in original order, for
\* 0 <= n <= size; for n > size it fails with InvalidArgument and writes
\* nothing.
C8_SubsetFirstLast ==
    (Ran("subset") /\ IsNone(args.cutids)
        /\ IsNone(args.first) # IsNone(args.last)) =>
        LET S == args.manifest
            n == IF IsNone(args.last) THEN Get(args.first) ELSE Get(args.last)
            from == IF IsNone(args.last) THEN 1 ELSE Len(S.items) - n + 1
        IN  IF n <= Len(S.items)
            THEN /\ error = "none"
                 /\ ~IsNone(output)
                 /\ Get(output).variant = S.variant
                 /\ Len(Get(output).items) = n
                 /\ \A i \in 1..n : Get(output).items[i] = S.items[from + i - 1]
            ELSE /\ error = "InvalidArgument"
                 /\ exitCode # 0
                 /\ IsNone(output)

C8_Witness ==
    /\ Ran("subset")
    /\ IsNone(args.cutids)
    /\ IsNone(args.first)
    /\ args.last = Some(2)
    /\ Len(args.manifest.items) = 3
    /\ error = "none"
    /\ Get(output).items = SubSeq(args.manifest.items, 2, 3)

C8_WitnessTooMany ==
    /\ Ran("subset")
    /\ IsNone(args.cutids)
    /\ IsNone(args.last)
    /\ args.first = Some(3)
    /\ Len(args.manifest.items) = 2
    /\ error = "InvalidArgument"
    /\ IsNone(output)

\* the identifiers of inputs are pairwise disjoint
Disjoint(sets) ==
    \A i, j \in DOMAIN sets :
        i # j => Ids(sets[i].items) \cap Ids(sets[j].items) = {}

\* where the records of input i start in the concatenation
Offset(sets, i) == SumLen([j \in 1..(i - 1) |-> sets[j].items])

\* C9: combine of one or more sets of the same variant writes, when their
\* identifiers are pairwise disjoint, their records in argument order and
\* within each set in its order (as many as the inputs have together, with
\* unique identifiers); when an identifier is in more than one input it fails
\* with DuplicateIdentifier and writes nothing.
C9_Combine ==
    (Ran("combine") /\ Len(args.manifests) >= 1
        /\ \A i \in DOMAIN args.manifests :
               args.manifests[i].variant = args.manifests[1].variant) =>
        LET sets == args.manifests
        IN  IF Disjoint(sets)
            THEN /\ error = "none"
                 /\ ~IsNone(output)
                 /\ Get(output).variant = sets[1].variant
                 /\ Len(Get(output).items)
                        = SumLen([i \in DOMAIN sets |-> sets[i].items])
                 /\ \A i \in DOMAIN sets : \A j \in DOMAIN sets[i].items :
                        Get(output).items[Offset(sets, i) + j] = sets[i].items[j]
                 /\ UniqueIds(Get(output).items)
            ELSE /\ error = "DuplicateIdentifier"
                 /\ exitCode # 0
                 /\ IsNone(output)

C9_Witness ==
    /\ Ran("combine")
    /\ Len(args.manifests) = 2
    /\ Len(args.manifests[1].items) = 2
    /\ Len(args.manifests[2].items) = 1
    /\ error = "none"
    /\ Len(Get(output).items) = 3
    /\ Get(output).items[3] = args.manifests[2].items[1]

C9_WitnessDuplicate ==
    /\ Ran("combine")
    /\ Len(args.manifests) = 2
    /\ args.manifests[1].variant = args.manifests[2].variant
    /\ Ids(args.manifests[1].items) = {"r1", "r2"}
    /\ Ids(args.manifests[2].items) = {"r2", "r3"}
    /\ error = "DuplicateIdentifier"
    /\ IsNone(output)

\* C10: split with num_splits <= 0 fails with InvalidArgument for every
\* manifest, shuffled or not, before any effect on the output side: the
\* output directory is not created and no part is written.
C10_SplitRejectsNonPositive ==
    (Ran("split") /\ args.num_splits <= 0) =>
        /\ error = "InvalidArgument"
        /\ exitCode # 0
        /\ ~dirCreated
        /\ parts = <<>>
        /\ IsNone(output)

C10_Witness ==
    /\ Ran("split")
    /\ args.num_splits = 0
    /\ args.shuffle
    /\ Len(args.manifest.items) = 2
    /\ error = "InvalidArgument"
    /\ ~dirCreated
    /\ parts = <<>>

====
